---- MODULE Spec2Model ----
(***************************************************************************)
(* Connection lifecycle engine of main.js: createConnections, the          *)
(* population balancer inside render, updateConnections and the rotation   *)
(* pass, one render frame per step.                                        *)
(*                                                                         *)
(* Units.  Time is counted in quarter seconds (the three durations of the  *)
(* program are 1.0 s, 0.75 s and 1.5 s).  The program only ever reads a    *)
(* batch's startTime as tNow - startTime and the watermark as              *)
(* tNow >= nextConnectionUpdateTime, so the model keeps these differences: *)
(* elapsed (saturated above every threshold) and untilUpdate.  Rates are   *)
(* counted in percent, opacities in thousandths.  A colour value is kept   *)
(* as black (exactly 0) or lit (above 0), with a flag telling whether the  *)
(* last updateConnections call stored a different value.                   *)
(***************************************************************************)
EXTENDS Integers, Sequences, FiniteSets, TLC

\* ---------------------------------------------------------------- constants
SMALL_BATCH_INTERVAL == 4
CONNECTION_REFRESH_RATE == 5
INITIAL_CONNECTIONS == 300
MAX_TOTAL_CONNECTIONS == 600
TARGET_CONNECTIONS == 400
FADE_IN_DURATION == 3
FADE_OUT_DURATION == 6
NUM_CONNECTED_POINTS == 500
SpawnCap == 20
SpawnBuffer == 20
FullReplacement == 100
InitialOpacityFull == 500
InitialOpacityPartial == 10
CONNECTION_THRESHOLD == 4

\* ------------------------------------------------------------------- bounds
\* longest gap between two frames, in quarter seconds (> FADE_OUT_DURATION)
MaxDt == 7

\* frames of the start-up run that leads to the grown initial states
RampFrames == 240

\* the number of batches of the population the overflow branch is run on
OverflowBatches == 31

\* the points of the field the probing of an anchor is run on (NUM_POINTS in
\* the program), and the probes of one anchor (the bound of the loop over j)
NUM_POINTS == 5
ProbesPerAnchor == 4

\* largest window.innerWidth and window.innerHeight a resize reads
MaxWidth == 12
MaxHeight == 12

\* elapsed times saturate one step above the largest threshold they are
\* compared with
ElapsedCap == FADE_OUT_DURATION + 1

\* no batch: the value of `connections` before the first batch exists
NoBatch == 0

VARIABLES
    connectionStates,   \* the four buckets, sequences of batch references
    batches,            \* the batch objects, by reference
    scene,              \* references of the LineSegments attached to the scene
    connections,        \* the global `connections`
    connectionStats,    \* the derived counters
    untilUpdate,        \* nextConnectionUpdateTime - tNow, 0 when passed
    initialSetupDone,
    density,            \* the point field generated by setupScene
    camera,             \* camera.aspect and the aspect its matrix was built on
    renderer,           \* the size given to renderer.setSize
    anchor,             \* the anchor being probed: hubIndex, j, potentialNeighbors
    trace,              \* what the last frame did (history, not program state)
    builds              \* low bit of the number of batches built by the frames taken

vars == <<connectionStates, batches, scene, connections, connectionStats,
          untilUpdate, initialSetupDone, density, camera, renderer, anchor,
          trace, builds>>

\* ------------------------------------------------------------------ helpers
Min(a, b) == IF a < b THEN a ELSE b

Max(a, b) == IF a > b THEN a ELSE b

\* Math.ceil(x * num/den) for an integer x (also negative)
CeilMul(x, num, den) == 0 - ((0 - (x * num)) \div den)

\* Math.floor(x * num/den)
FloorMul(x, num, den) == (x * num) \div den

Range(s) == {s[i] : i \in 1..Len(s)}

RECURSIVE SumRange(_, _, _, _)
\* the sum of the hub counts of seq[lo..hi], by halves (the sum is the same in
\* any grouping)
SumRange(seq, heap, lo, hi) ==
    IF lo > hi THEN 0
    ELSE IF lo = hi THEN heap[seq[lo]].hubsCount
    ELSE SumRange(seq, heap, lo, (lo + hi) \div 2)
            + SumRange(seq, heap, (lo + hi) \div 2 + 1, hi)

\* reduce((sum, conn) => sum + (conn.hubsCount || 0), 0)
SumHubs(seq, heap) == SumRange(seq, heap, 1, Len(seq))

\* the reference the next allocated object gets: the lowest one not in use
FreshRef(heap) ==
    LET free == (1..(Cardinality(DOMAIN heap) + 1)) \ DOMAIN heap
    IN  CHOOSE n \in free : \A m \in free : n <= m

EmptyStates == [active |-> <<>>, fadingIn |-> <<>>, fadingOut |-> <<>>,
                pendingRemoval |-> <<>>]

NoTrace == [cycle |-> "none", demoted |-> 0, requested |-> 0, good |-> 0,
            built |-> NoBatch]

\* ------------------------------------------------------------------ colours
\* hexToRgbNorm(CONFIG.lineColorFlat): the flat line colour 0x000000 gives
\* r = g = b = 0, also at the spoke end (0 * 0.8)
LineColour == "black"

\* a fade in whose target does not start at 0
FadeInColourFixedTarget(c, elapsed) == "lit"

\* fade in: value*0.9 + 0.1*(0.6 * elapsed/FADE_IN_DURATION).  Black stays black
\* only while the target is 0.
FadeInColour(c, elapsed) ==
    IF c = "black" /\ elapsed = 0 THEN "black" ELSE "lit"

\* fade out: value * 0.95 * fadeOutFactor, fadeOutFactor =
\* (1 - elapsed/FADE_OUT_DURATION)^3, which is 0 at elapsed = FADE_OUT_DURATION
FadeOutColour(c, elapsed) ==
    IF c = "black" \/ elapsed = FADE_OUT_DURATION THEN "black" ELSE "lit"

\* active pulse: value*0.95 + 0.05*(0.5 + 0.2*sin(..)), a target of 0.3 at least
PulseColour(c) == "lit"

\* Whether a tick stores a value other than the one it read.  A lit value
\* meets the fixed point of a blend (value = target) only by coincidence, and
\* counts as changed.
Differs(old, new) == ~(old = "black" /\ new = "black")

\* --------------------------------------------------------- createConnections
\* Outcome of the random probing of one build call: the number of points each
\* anchor finds under CONNECTION_THRESHOLD among its 50 probes.  The explored
\* outcomes let the first `good` anchors find exactly 3 and the others
\* exactly 2.
Found(probes, i) == IF i <= probes.good THEN 3 ELSE 2

\* a hub test that is content with two points
FormsHubFromTwo(found) == found >= 2

\* potentialNeighbors.length >= 3
FormsHub(found) == found >= 3

RECURSIVE HubLoop(_, _, _)
\* the loop over the anchors lo..hi, by halves: what each anchor pushes on the
\* three arrays is one whole hub (18 position values, 18 colour values,
\* 3 opacities) or nothing
HubLoop(lo, hi, probes) ==
    IF lo > hi
    THEN [linePositions |-> 0, lineColors |-> 0, lineOpacities |-> 0]
    ELSE IF lo = hi
    THEN IF FormsHub(Found(probes, lo))
         THEN [linePositions |-> 18, lineColors |-> 18, lineOpacities |-> 3]
         ELSE [linePositions |-> 0, lineColors |-> 0, lineOpacities |-> 0]
    ELSE LET a == HubLoop(lo, (lo + hi) \div 2, probes)
             b == HubLoop((lo + hi) \div 2 + 1, hi, probes)
         IN  [linePositions |-> a.linePositions + b.linePositions,
              lineColors    |-> a.lineColors + b.lineColors,
              lineOpacities |-> a.lineOpacities + b.lineOpacities]

\* explicitConnectionCount || Math.floor((NUM_CONNECTED_POINTS / 4) * pct)
NumHubsToCreate(replacementPercentage, explicitConnectionCount) ==
    IF explicitConnectionCount # 0 THEN explicitConnectionCount
    ELSE FloorMul(NUM_CONNECTED_POINTS \div 4, replacementPercentage, 100)

\* a batch object whose hubsCount is the number of spokes
NewConnectionsCountingSpokes(lines, full) ==
    [state         |-> IF full THEN "active" ELSE "fadingIn",
     elapsed       |-> 0,
     hubsCount     |-> lines.lineOpacities,
     geomHubsCount |-> lines.linePositions \div 18,
     nOpacities    |-> lines.lineOpacities,
     nPositions    |-> lines.linePositions,
     opacity       |-> IF full THEN InitialOpacityFull
                       ELSE InitialOpacityPartial,
     colour        |-> LineColour,
     changed       |-> FALSE,
     visible       |-> TRUE,
     synced        |-> FALSE]

\* the batch object built from the three arrays.  startTime is read from
\* performance.now() inside the frame; on the quarter-second grid it is the
\* frame's tNow, so the batch is ticked at elapsed = 0 in the frame that
\* builds it.
NewConnections(lines, full) ==
    [state         |-> IF full THEN "active" ELSE "fadingIn",
     elapsed       |-> 0,
     hubsCount     |-> lines.lineOpacities \div 3,
     geomHubsCount |-> lines.linePositions \div 18,
     nOpacities    |-> lines.lineOpacities,
     nPositions    |-> lines.linePositions,
     opacity       |-> IF full THEN InitialOpacityFull
                       ELSE InitialOpacityPartial,
     colour        |-> LineColour,
     changed       |-> FALSE,
     visible       |-> TRUE,
     synced        |-> FALSE]

\* a guard that lets an empty batch through
HasLinesAlways(lines) == TRUE

\* if (linePositions.length > 0)
HasLines(lines) == lines.linePositions > 0

\* where the new batch goes: "replace" resets the buckets to [it], "first"
\* makes it the global `connections` and pushes it on active, "fadeIn" pushes
\* it on fadingIn
Placement(full, hasConnections) ==
    IF full THEN "replace"
    ELSE IF ~hasConnections THEN "first"
    ELSE "fadeIn"

\* s is the program state as a record; the result is the state after the call
createConnections(s, replacementPercentage, explicitConnectionCount, probes) ==
    LET full == replacementPercentage >= FullReplacement
        cleared == full /\ s.connections # NoBatch
        s0 == IF cleared
              THEN [s EXCEPT !.scene = @ \ {s.connections},
                             !.connections = NoBatch]
              ELSE s
        n == NumHubsToCreate(replacementPercentage, explicitConnectionCount)
        lines == HubLoop(1, n, probes)
        ref == FreshRef(s0.batches)
        heap == [r \in DOMAIN s0.batches \cup {ref} |->
                    IF r = ref THEN NewConnections(lines, full)
                    ELSE s0.batches[r]]
        place == Placement(full, s0.connections # NoBatch)
    IN  IF ~HasLines(lines) THEN s0
        ELSE IF place = "replace"
        THEN [s0 EXCEPT !.batches = heap,
                        !.connections = ref,
                        !.states = [EmptyStates EXCEPT !.active = <<ref>>],
                        !.scene = @ \cup {ref}]
        ELSE IF place = "first"
        THEN [s0 EXCEPT !.batches = heap,
                        !.connections = ref,
                        !.states.active = Append(@, ref),
                        !.scene = @ \cup {ref}]
        ELSE [s0 EXCEPT !.batches = heap,
                        !.states.fadingIn = Append(@, ref),
                        !.scene = @ \cup {ref}]

\* ------------------------------------------------------ population balancer
\* a demotion that leaves conn.startTime as it was
DemoteKeepingStartTime(s, n) ==
    LET act == s.states.active
        k == Min(n, Len(act))
        moved == SubSeq(act, 1, k)
        movedRefs == Range(moved)
    IN  [s EXCEPT
            !.states.active = SubSeq(act, k + 1, Len(act)),
            !.states.fadingOut = @ \o moved,
            !.batches = [r \in DOMAIN s.batches |->
                IF r \in movedRefs
                THEN [s.batches[r] EXCEPT !.state = "fadingOut"]
                ELSE s.batches[r]]]

\* a demotion that pops the newest batches instead of shifting the oldest
DemoteNewest(s, n) ==
    LET act == s.states.active
        k == Min(n, Len(act))
        moved == SubSeq(act, Len(act) - k + 1, Len(act))
        movedRefs == Range(moved)
    IN  [s EXCEPT
            !.states.active = SubSeq(act, 1, Len(act) - k),
            !.states.fadingOut = @ \o moved,
            !.batches = [r \in DOMAIN s.batches |->
                IF r \in movedRefs
                THEN [s.batches[r] EXCEPT !.state = "fadingOut", !.elapsed = 0]
                ELSE s.batches[r]]]

\* conn = active.shift(); conn.state = 'fadingOut'; conn.startTime = tNow;
\* fadingOut.push(conn), n times
Demote(s, n) ==
    LET act == s.states.active
        k == Min(n, Len(act))
        moved == SubSeq(act, 1, k)
        movedRefs == Range(moved)
    IN  [s EXCEPT
            !.states.active = SubSeq(act, k + 1, Len(act)),
            !.states.fadingOut = @ \o moved,
            !.batches = [r \in DOMAIN s.batches |->
                IF r \in movedRefs
                THEN [s.batches[r] EXCEPT !.state = "fadingOut", !.elapsed = 0]
                ELSE s.batches[r]]]

\* overflow branch: Math.min(active.length, Math.ceil(excess * 0.3))
NumToRemove(s) ==
    Min(Len(s.states.active),
        CeilMul(s.stats.total - TARGET_CONNECTIONS, 3, 10))

\* Math.floor(TARGET_CONNECTIONS * 0.6)
MinActiveToKeep == FloorMul(TARGET_CONNECTIONS, 6, 10)

\* Math.max(1, Math.ceil(active.length * CONNECTION_REFRESH_RATE))
NumToFadeOut(s) ==
    Max(1, CeilMul(Len(s.states.active), CONNECTION_REFRESH_RATE, 100))

\* a refresh without the minActiveToKeep guard
ActualFadeOutUnguarded(s) == NumToFadeOut(s)

\* normal branch: the number of batches the refresh takes out of active
ActualFadeOut(s) ==
    IF Len(s.states.active) - NumToFadeOut(s) < MinActiveToKeep
    THEN Len(s.states.active) - MinActiveToKeep
    ELSE NumToFadeOut(s)

\* which branch of the balancer the cycle takes
Branch(s) ==
    IF s.stats.total > MAX_TOTAL_CONNECTIONS THEN "overflow"
    ELSE IF Len(s.states.active) > 0 THEN "normal"
    ELSE "idle"

\* the number of batches the cycle moves from active to fadingOut
NumDemoted(s) ==
    IF Branch(s) = "overflow" THEN NumToRemove(s)
    ELSE IF Branch(s) = "normal" /\ ActualFadeOut(s) > 0 THEN ActualFadeOut(s)
    ELSE 0

\* a spawn guard that stops 40 below the target
CanSpawnWithTwiceTheBuffer(s) ==
    /\ s.stats.total < MAX_TOTAL_CONNECTIONS
    /\ s.stats.total - s.stats.fadingOut + 2 * SpawnBuffer < TARGET_CONNECTIONS

\* the guard of the spawn: below the maximum and room for a fade in
CanSpawn(s) ==
    /\ s.stats.total < MAX_TOTAL_CONNECTIONS
    /\ s.stats.total - s.stats.fadingOut + SpawnBuffer < TARGET_CONNECTIONS

\* a spawn sized to 20% of the deficit without the cap of 20
ConnectionsToAddUncapped(s) ==
    CeilMul(TARGET_CONNECTIONS - (s.stats.total - s.stats.fadingOut), 2, 10)

\* Math.min(20, Math.ceil(deficit * 0.2))
ConnectionsToAdd(s) ==
    Min(SpawnCap,
        CeilMul(TARGET_CONNECTIONS - (s.stats.total - s.stats.fadingOut), 2, 10))

\* the number of anchors the cycle asks createConnections for, 0 for no call
SpawnRequest(s) ==
    IF CanSpawn(s) /\ ConnectionsToAdd(s) > 0 THEN ConnectionsToAdd(s) ELSE 0

\* one balancing cycle: the body of `if (tNow >= nextConnectionUpdateTime)`
Balance(s, probes) ==
    LET demoted == IF NumDemoted(s) > 0 THEN Demote(s, NumDemoted(s)) ELSE s
        spawned == IF SpawnRequest(s) > 0
                   THEN createConnections(demoted, CONNECTION_REFRESH_RATE,
                                          SpawnRequest(s), probes)
                   ELSE demoted
        made == DOMAIN spawned.batches \ DOMAIN s.batches
    IN  [spawned EXCEPT
            !.untilUpdate = SMALL_BATCH_INTERVAL,
            !.trace = [cycle |-> Branch(s),
                       demoted |-> NumDemoted(s),
                       requested |-> SpawnRequest(s),
                       good |-> IF SpawnRequest(s) > 0 THEN probes.good ELSE 0,
                       built |-> IF made = {} THEN NoBatch
                                 ELSE CHOOSE r \in made : TRUE]]

\* --------------------------------------------------------- updateConnections
Cube(x) == x * x * x

\* fadeOutFactor < 0.1
NearlyInvisible(elapsed) ==
    10 * Cube(FADE_OUT_DURATION - elapsed) < Cube(FADE_OUT_DURATION)

\* the tests that end the two fades
FadeInOver(elapsed) == elapsed > FADE_IN_DURATION

\* a fade out that ends a quarter second late
FadeOutOverLate(elapsed) == elapsed > FADE_OUT_DURATION + 1

FadeOutOver(elapsed) == elapsed > FADE_OUT_DURATION

\* the counters recomputed at the end of updateConnections
Stats(states, heap) ==
    LET a == SumHubs(states.active, heap)
        i == SumHubs(states.fadingIn, heap)
        o == SumHubs(states.fadingOut, heap)
    IN  [active |-> a, fadingIn |-> i, fadingOut |-> o, total |-> a + i + o]

\* fadingIn loop: the batches spliced out and pushed on active, in order
Promoted(fadingIn, h) ==
    SelectSeq(fadingIn, LAMBDA r : FadeInOver(h[r].elapsed))

\* a fadingIn loop that pushes on active without the splice
StillFadingInNoSplice(fadingIn, h) == fadingIn

\* fadingIn loop: the batches left in fadingIn
StillFadingIn(fadingIn, h) ==
    SelectSeq(fadingIn, LAMBDA r : ~FadeInOver(h[r].elapsed))

\* fadingOut loop: the batches spliced out and pushed on pendingRemoval
Expired(fadingOut, h) ==
    SelectSeq(fadingOut, LAMBDA r : FadeOutOver(h[r].elapsed))

\* fadingOut loop: the batches left in fadingOut
StillFadingOut(fadingOut, h) ==
    SelectSeq(fadingOut, LAMBDA r : ~FadeOutOver(h[r].elapsed))

\* a removal pass that leaves every batch attached
RemoveNothing(attached, pendingRemoval) == attached

\* pendingRemoval.forEach(conn => scene.remove(conn.lines))
RemoveFromScene(attached, pendingRemoval) == attached \ Range(pendingRemoval)

\* the colour pass over one batch, by the bucket that holds it after the moves
Tick(b, bucket) ==
    LET c == IF bucket = "fadingIn" THEN FadeInColour(b.colour, b.elapsed)
             ELSE IF bucket = "fadingOut" THEN FadeOutColour(b.colour, b.elapsed)
             ELSE IF bucket = "active" /\ b.nOpacities # 0
             THEN PulseColour(b.colour)
             ELSE b.colour
    IN  [b EXCEPT !.colour = c,
                  !.changed = Differs(b.colour, c),
                  !.visible = IF bucket = "fadingOut" /\ NearlyInvisible(b.elapsed)
                              THEN FALSE ELSE @]

updateConnections(s) ==
    LET st == s.states
        h == s.batches
        \* pendingRemoval.forEach(scene.remove); pendingRemoval = []
        sceneAfter == RemoveFromScene(s.scene, st.pendingRemoval)
        promoted == Promoted(st.fadingIn, h)
        stayIn   == StillFadingIn(st.fadingIn, h)
        expired  == Expired(st.fadingOut, h)
        stayOut  == StillFadingOut(st.fadingOut, h)
        act == st.active \o promoted
        states == [active |-> act, fadingIn |-> stayIn, fadingOut |-> stayOut,
                   pendingRemoval |-> expired]
        inRefs == Range(stayIn)
        outRefs == Range(stayOut)
        actRefs == Range(act)
        heap == [r \in DOMAIN h |->
                    Tick(h[r], IF r \in inRefs THEN "fadingIn"
                               ELSE IF r \in outRefs THEN "fadingOut"
                               ELSE IF r \in actRefs THEN "active"
                               ELSE "none")]
    IN  [s EXCEPT !.states = states,
                  !.batches = heap,
                  !.scene = sceneAfter,
                  !.stats = Stats(states, heap)]

\* ------------------------------------------------------------------- render
\* a new frame time tNow, dt after the last one: every tNow - startTime grows
\* by dt, the watermark comes dt nearer, and the point field has turned
\* (rotation.y += 0.0015), away from every batch's rotation
Advance(s, dt) ==
    [s EXCEPT !.batches = [r \in DOMAIN s.batches |->
                [s.batches[r] EXCEPT !.elapsed = Min(@ + dt, ElapsedCap),
                                     !.synced = FALSE]],
              !.untilUpdate = Max(@ - dt, 0),
              !.trace = NoTrace]

DueOnEveryFrame(s) == s.initialSetupDone

\* initialSetupDone && tNow >= nextConnectionUpdateTime
Due(s) == s.initialSetupDone /\ s.untilUpdate = 0

\* active.concat(fadingIn, fadingOut).forEach(rotation = points.rotation)
RotateConnections(s) ==
    LET turned == Range(s.states.active) \cup Range(s.states.fadingIn)
                    \cup Range(s.states.fadingOut)
    IN  [s EXCEPT !.batches = [r \in DOMAIN s.batches |->
            IF r \in turned THEN [s.batches[r] EXCEPT !.synced = TRUE]
            ELSE s.batches[r]]]

\* The batch objects nothing refers to any more: dropped from pendingRemoval,
\* detached from the scene and not the global `connections`.
Unreachable(s) ==
    DOMAIN s.batches \ (Range(s.states.active) \cup Range(s.states.fadingIn)
        \cup Range(s.states.fadingOut) \cup Range(s.states.pendingRemoval)
        \cup s.scene \cup {s.connections})

\* where an object at reference r is found once the objects in `garbage` are
\* reclaimed: references are positions among the live objects, in the order of
\* allocation
Relocate(r, garbage) == r - Cardinality({g \in garbage : g < r})

\* the live object that ends at position n
Original(n, garbage) ==
    n + Cardinality({g \in garbage :
                        n > g - Cardinality({x \in garbage : x <= g})})

RelocateAll(seq, garbage) ==
    [i \in 1..Len(seq) |-> Relocate(seq[i], garbage)]

\* The runtime reclaims the unreachable batch objects at the end of the frame.
\* No statement of the program can tell the difference: it only keeps the
\* references of the live batches contiguous.
Collect(s) ==
    LET garbage == Unreachable(s)
        kept == Cardinality(DOMAIN s.batches) - Cardinality(garbage)
    IN  IF garbage = {} THEN s
        ELSE [s EXCEPT
                !.states = [b \in DOMAIN s.states |->
                                RelocateAll(s.states[b], garbage)],
                !.batches = [n \in 1..kept |-> s.batches[Original(n, garbage)]],
                !.scene = {Relocate(r, garbage) : r \in s.scene},
                !.connections = IF @ = NoBatch THEN NoBatch
                                ELSE Relocate(@, garbage),
                !.trace.built = IF @ = NoBatch THEN NoBatch
                                ELSE Relocate(@, garbage)]

\* one call of render, dt after the last one: the balancer when it is due,
\* updateConnections, the rotation pass.  Each stage is computed once, from
\* the result of the stage before.
Frame(s, dt, good) ==
    CHOOSE s5 \in
        {Collect(s4) : s4 \in
            {RotateConnections(s3) : s3 \in
                {updateConnections(s2) : s2 \in
                    {(IF Due(s1) THEN Balance(s1, [good |-> good]) ELSE s1) :
                        s1 \in {Advance(s, dt)}}}}} : TRUE

\* the state as one record
Current ==
    [states |-> connectionStates, batches |-> batches, scene |-> scene,
     connections |-> connections, stats |-> connectionStats,
     untilUpdate |-> untilUpdate, initialSetupDone |-> initialSetupDone,
     trace |-> trace]

\* the variables hold the record s
Holds(s) ==
    /\ connectionStates = s.states
    /\ batches = s.batches
    /\ scene = s.scene
    /\ connections = s.connections
    /\ connectionStats = s.stats
    /\ untilUpdate = s.untilUpdate
    /\ initialSetupDone = s.initialSetupDone
    /\ trace = s.trace

\* the hubs a build call of n anchors completes when it completes any: all of
\* them in a dense field, a single one in a sparse field
HubsPerBuild(n) == IF density = "dense" THEN n ELSE 1

\* the outcomes of the probing explored for a call of n anchors
Yields(n) == {0, HubsPerBuild(n)}

\* the number of anchors the next frame's balancer asks for, 0 for no call
Asked(dt) ==
    IF initialSetupDone /\ untilUpdate - dt <= 0 THEN SpawnRequest(Current)
    ELSE 0

Render(dt, good) ==
    \E s \in {Frame(Current, dt, good)} :
        /\ connectionStates' = s.states
        /\ batches' = s.batches
        /\ scene' = s.scene
        /\ connections' = s.connections
        /\ connectionStats' = s.stats
        /\ untilUpdate' = s.untilUpdate
        /\ trace' = s.trace
        /\ builds' = IF s.trace.built # NoBatch THEN 1 - builds ELSE builds
        /\ UNCHANGED <<initialSetupDone, density, camera, renderer, anchor>>

RenderFrame ==
    \E dt \in 1..MaxDt :
        \E good \in (IF Asked(dt) > 0 THEN Yields(Asked(dt)) ELSE {0}) :
            Render(dt, good)

\* ------------------------------------------------- the probing of one anchor
\* The field the probing is run on: NUM_POINTS points in a row, half a unit
\* apart, so that the distance of two points, in halves, is the difference of
\* their indices.
Dist(otherIndex, hubIndex) ==
    IF otherIndex > hubIndex THEN otherIndex - hubIndex
    ELSE hubIndex - otherIndex

\* no anchor is being probed
NoAnchor ==
    [hubIndex |-> 0, j |-> 0, potentialNeighbors |-> <<>>, spokes |-> <<>>,
     formed |-> FALSE]

\* hubIndex drawn, potentialNeighbors = []
NewAnchor(hubIndex) == [NoAnchor EXCEPT !.hubIndex = hubIndex]

\* one pass of the loop over j with the drawn otherIndex
Probed(a, otherIndex) ==
    IF otherIndex = a.hubIndex THEN [a EXCEPT !.j = @ + 1]
    ELSE IF Dist(otherIndex, a.hubIndex) < CONNECTION_THRESHOLD
    THEN [a EXCEPT !.j = @ + 1,
                   !.potentialNeighbors =
                        Append(@, [index |-> otherIndex,
                                   dist |-> Dist(otherIndex, a.hubIndex)])]
    ELSE [a EXCEPT !.j = @ + 1]

\* e put behind the elements of the sorted sequence that are not farther
InsertByDist(sorted, e) ==
    LET k == Cardinality({i \in 1..Len(sorted) : sorted[i].dist <= e.dist})
    IN  SubSeq(sorted, 1, k) \o <<e>> \o SubSeq(sorted, k + 1, Len(sorted))

RECURSIVE SortByDist(_)
\* potentialNeighbors.sort((a, b) => a.dist - b.dist), a stable sort
SortByDist(seq) ==
    IF seq = <<>> THEN <<>>
    ELSE InsertByDist(SortByDist(SubSeq(seq, 1, Len(seq) - 1)), seq[Len(seq)])

\* after the loop over j: the sort, and the three spokes when a hub forms
Spoked(a) ==
    LET sorted == SortByDist(a.potentialNeighbors)
    IN  [a EXCEPT !.potentialNeighbors = sorted,
                  !.formed = TRUE,
                  !.spokes = IF FormsHub(Len(sorted))
                             THEN <<sorted[1].index, sorted[2].index,
                                    sorted[3].index>>
                             ELSE <<>>]

ProbeUnchanged ==
    UNCHANGED <<connectionStates, batches, scene, connections,
                connectionStats, untilUpdate, initialSetupDone, density,
                camera, renderer, trace, builds>>

\* const otherIndex = Math.floor(Math.random() * NUM_POINTS), and the rest of
\* the body of the loop over j
Probe ==
    /\ ~anchor.formed
    /\ anchor.j < ProbesPerAnchor
    /\ \E otherIndex \in 1..NUM_POINTS : anchor' = Probed(anchor, otherIndex)
    /\ ProbeUnchanged

\* the loop over j is over
FormHub ==
    /\ ~anchor.formed
    /\ anchor.j = ProbesPerAnchor
    /\ anchor' = Spoked(anchor)
    /\ ProbeUnchanged

\* the next pass of the loop over the anchors
NextAnchor ==
    /\ anchor.formed
    /\ \E hubIndex \in 1..NUM_POINTS : anchor' = NewAnchor(hubIndex)
    /\ ProbeUnchanged

\* ------------------------------------------------------------------- resize
RECURSIVE GCD(_, _)
GCD(a, b) == IF b = 0 THEN a ELSE GCD(b, a % b)

\* width / height on two non-negative integers, as the division of doubles
\* gives it: the quotient in lowest terms, Infinity (1 over 0) when only the
\* divisor is 0, NaN (0 over 0) when both are
Divide(width, height) ==
    IF height = 0 THEN [num |-> IF width = 0 THEN 0 ELSE 1, den |-> 0]
    ELSE [num |-> width \div GCD(width, height),
          den |-> height \div GCD(width, height)]

\* neither Infinity nor NaN
Finite(q) == q.den # 0

\* camera.updateProjectionMatrix(): the matrix is computed from camera.aspect
updateProjectionMatrix(cam) == [cam EXCEPT !.projection = cam.aspect]

\* new t.PerspectiveCamera(60, aspect, 0.1, 1000)
PerspectiveCamera(aspect) ==
    updateProjectionMatrix([aspect |-> aspect, projection |-> aspect])

\* the body of resize on a window of the given inner size
Resized(cam, width, height) ==
    [camera |-> updateProjectionMatrix(
                    [cam EXCEPT !.aspect = Divide(width, height)]),
     renderer |-> [width |-> width, height |-> height]]

\* window.onload on a window of the given inner size: the camera made by
\* setupScene, then resize()
OnLoad(width, height) ==
    \E v \in {Resized(PerspectiveCamera(Divide(width, height)),
                       width, height)} :
        /\ camera = v.camera
        /\ renderer = v.renderer

\* the resize listener
resize ==
    /\ \E width \in 0..MaxWidth : \E height \in 0..MaxHeight :
         \E v \in {Resized(camera, width, height)} :
            /\ camera' = v.camera
            /\ renderer' = v.renderer
    /\ UNCHANGED <<connectionStates, batches, scene, connections,
                   connectionStats, untilUpdate, initialSetupDone, density,
                   anchor, trace, builds>>

\* -------------------------------------------------------------------- setup
NoStats == [active |-> 0, fadingIn |-> 0, fadingOut |-> 0, total |-> 0]

\* the state before setupScene
Blank ==
    [states |-> EmptyStates, batches |-> [r \in {} |-> 0], scene |-> {},
     connections |-> NoBatch, stats |-> NoStats, untilUpdate |-> 0,
     initialSetupDone |-> FALSE, trace |-> NoTrace]

\* setupScene: createInitialConnections (createConnections(positions, 1.0,
\* INITIAL_CONNECTIONS), then initialSetupDone = true).  The point field has
\* not turned yet, so the new batch has its rotation.
SetupScene(good) ==
    LET s == createConnections(Blank, FullReplacement, INITIAL_CONNECTIONS,
                               [good |-> good])
    IN  [s EXCEPT
            !.batches = [r \in DOMAIN s.batches |->
                            [s.batches[r] EXCEPT !.synced = TRUE]],
            !.initialSetupDone = TRUE,
            !.trace = [cycle |-> "setup", demoted |-> 0,
                       requested |-> INITIAL_CONNECTIONS, good |-> good,
                       built |-> s.connections]]

RECURSIVE Ramp(_, _)
\* the state n frames after s when a frame comes once per
\* SMALL_BATCH_INTERVAL and every build call completes one hub
Ramp(s, n) ==
    IF n = 0 THEN s
    ELSE IF n = 1 THEN Frame(s, SMALL_BATCH_INTERVAL, 1)
    ELSE CHOOSE t \in {Ramp(m, n - n \div 2) : m \in {Ramp(s, n \div 2)}} : TRUE

\* A dense field starts right after setup.  A sparse field, where the balancer
\* takes RampFrames cycles to grow the population to the floor of the refresh,
\* starts at the end of that run.
Init ==
    /\ builds = 0
    /\ anchor = NoAnchor
    /\ OnLoad(MaxWidth, MaxHeight)
    /\ density \in {"sparse", "dense"}
    /\ \E good \in (IF density = "dense" THEN {0, INITIAL_CONNECTIONS}
                    ELSE {0, 1}) :
         Holds(IF density = "dense" THEN SetupScene(good)
               ELSE Ramp(SetupScene(good), RampFrames))

Next == RenderFrame

Spec == Init /\ [][Next]_vars

\* a frame in which the balancer, asking createConnections for hubs, gets a
\* batch from it
Built ==
    /\ SpawnRequest(Current) > 0
    /\ builds' = 1 - builds

\* a frame that moves the time left to the watermark
Tock == untilUpdate' \in 0..SMALL_BATCH_INTERVAL

\* requestAnimationFrame keeps calling render, and a build call that keeps
\* being made keeps yielding hubs
FairSpec ==
    /\ Init /\ [][Next]_vars
    /\ WF_builds(Built)
    /\ WF_untilUpdate(Tock)

\* ---------------------------------------------------------- overflow branch
\* The overflow branch on its own.  The balancer stops building at 380 hubs
\* outside fadingOut, so no run from setupScene reads a total above
\* MAX_TOTAL_CONNECTIONS; the branch is run here on a population of
\* OverflowBatches (or one more) promoted batches of SpawnCap hubs each.
OverflowPopulation(n) ==
    LET lines == HubLoop(1, SpawnCap, [good |-> SpawnCap])
        batch == [NewConnections(lines, FALSE) EXCEPT
                    !.elapsed = ElapsedCap, !.colour = "lit", !.synced = TRUE]
        heap == [r \in 1..n |-> batch]
        states == [EmptyStates EXCEPT !.active = [i \in 1..n |-> i]]
    IN  [states |-> states, batches |-> heap, scene |-> 1..n,
         connections |-> 1, stats |-> Stats(states, heap),
         untilUpdate |-> SMALL_BATCH_INTERVAL, initialSetupDone |-> TRUE,
         trace |-> NoTrace]

OverflowInit ==
    /\ builds = 0
    /\ anchor = NoAnchor
    /\ OnLoad(MaxWidth, MaxHeight)
    /\ density = "dense"
    /\ \E n \in OverflowBatches..(OverflowBatches + 1) :
            Holds(OverflowPopulation(n))

OverflowSpec == OverflowInit /\ [][Next]_vars

\* the runs from setupScene together with the runs of the overflow branch
WideSpec == (Init \/ OverflowInit) /\ [][Next]_vars

\* ------------------------------------------------------------ resize events
\* The page loaded in a window with a positive inner size, then resized any
\* number of times; the connection engine is as setupScene left it.
ResizeInit ==
    /\ builds = 0
    /\ anchor = NoAnchor
    /\ density = "dense"
    /\ Holds(SetupScene(INITIAL_CONNECTIONS))
    /\ \E width \in 1..MaxWidth : \E height \in 1..MaxHeight :
            OnLoad(width, height)

ResizeSpec == ResizeInit /\ [][resize]_vars

\* ------------------------------------------------------ the anchors of a call
\* The loop over the anchors of one createConnections call, probe by probe,
\* on every outcome of the random draws; the buckets are as setup left them.
ProbeInit ==
    /\ builds = 0
    /\ density = "dense"
    /\ Holds(SetupScene(INITIAL_CONNECTIONS))
    /\ OnLoad(MaxWidth, MaxHeight)
    /\ \E hubIndex \in 1..NUM_POINTS : anchor = NewAnchor(hubIndex)

ProbeNext == Probe \/ FormHub \/ NextAnchor

ProbeSpec == ProbeInit /\ [][ProbeNext]_vars

\* ============================================================== properties
AllRefs ==
    Range(connectionStates.active) \cup Range(connectionStates.fadingIn)
        \cup Range(connectionStates.fadingOut)
        \cup Range(connectionStates.pendingRemoval)

\* the batch objects the coming frame reclaims, and where a batch that
\* survives it is found afterwards
Garbage == Range(connectionStates.pendingRemoval) \ {connections}

\* the stages of the lifecycle, in order; 5 is "deleted"
StageIn(fadingIn, active, fadingOut, pendingRemoval, r) ==
    IF r \in fadingIn THEN 1
    ELSE IF r \in active THEN 2
    ELSE IF r \in fadingOut THEN 3
    ELSE IF r \in pendingRemoval THEN 4
    ELSE 5

\* the sum of the hub counts of the batches in active, fadingIn and fadingOut
TotalHubs ==
    SumHubs(connectionStates.active, batches)
        + SumHubs(connectionStates.fadingIn, batches)
        + SumHubs(connectionStates.fadingOut, batches)

\* a frame in which the balancer ran
Cycled == trace.cycle \in {"overflow", "normal", "idle"}

\* C1: over one frame every batch that is in a bucket stays in its stage or
\* moves to the next one of fadingIn, active, fadingOut, pendingRemoval,
\* deleted: never backward, never two stages at once.
C1_ForwardOneStage ==
    [][\A fi \in {Range(connectionStates.fadingIn)} :
       \A ac \in {Range(connectionStates.active)} :
       \A fo \in {Range(connectionStates.fadingOut)} :
       \A pr \in {Range(connectionStates.pendingRemoval)} :
       \A fi2 \in {Range(connectionStates'.fadingIn)} :
       \A ac2 \in {Range(connectionStates'.active)} :
       \A fo2 \in {Range(connectionStates'.fadingOut)} :
       \A pr2 \in {Range(connectionStates'.pendingRemoval)} :
       \A g \in {Garbage} :
         \A r \in fi \cup ac \cup fo \cup pr :
            LET from == StageIn(fi, ac, fo, pr, r)
                to == IF r \in g THEN 5
                      ELSE StageIn(fi2, ac2, fo2, pr2, Relocate(r, g))
            IN  to = from \/ to = from + 1]_vars

\* C1 witness: batches are fading in, fading out and pending removal at once,
\* at the end of a frame that demoted a batch
C1_Witness ==
    /\ connectionStates.fadingIn # <<>>
    /\ connectionStates.fadingOut # <<>>
    /\ connectionStates.pendingRemoval # <<>>
    /\ trace.demoted > 0

\* the buckets of the record s hold every attached batch, and no batch twice
WellBucketed(s) ==
    LET all == s.states.active \o s.states.fadingIn \o s.states.fadingOut
                \o s.states.pendingRemoval
    IN  /\ Cardinality(Range(all)) = Len(all)
        /\ s.scene \subseteq Range(all)
        /\ s.trace.built # NoBatch => s.trace.built \in Range(all)

\* C2: after setup, after every balancer cycle and after every
\* updateConnections call each live batch is in exactly one bucket, once.
C2_ExactlyOneBucket ==
    /\ WellBucketed(Current)
    /\ \A s1 \in {Balance(Advance(Current, SMALL_BATCH_INTERVAL), [good |-> g]) :
                    g \in Yields(SpawnRequest(Current))} : WellBucketed(s1)

\* C2 witness: the frame demoted a batch, built one and moved one to
\* pendingRemoval
C2_Witness ==
    /\ trace.demoted > 0
    /\ trace.built # NoBatch
    /\ connectionStates.pendingRemoval # <<>>
    /\ Len(connectionStates.active) > 1

\* C3: at every tick the hubs in active, fadingIn and fadingOut are at most
\* MAX_TOTAL_CONNECTIONS (so the count never has to come back under it).
C3_TotalAtMostMax == TotalHubs <= MAX_TOTAL_CONNECTIONS

\* C3 witness: the population has grown as far as the spawn guard lets it,
\* and the balancer has run on it
C3_Witness ==
    /\ TotalHubs >= TARGET_CONNECTIONS - SpawnBuffer
    /\ trace.cycle = "normal"
    /\ trace.requested = 0

\* C4: in a cycle of the normal branch, an active hub count at or above
\* floor(TARGET_CONNECTIONS * 0.6) is still at or above it after the demotions,
\* and below it the cycle demotes no batch.
C4_FloorKept ==
    [][trace'.cycle = "normal" =>
        \A g \in {Garbage} :
        \A fo2 \in {Range(connectionStates'.fadingOut)} :
        \A demoted \in {SelectSeq(connectionStates.active,
                                  LAMBDA r : Relocate(r, g) \in fo2)} :
        \A before \in {SumHubs(connectionStates.active, batches)} :
        \A after \in {before - SumHubs(demoted, batches)} :
            /\ before >= MinActiveToKeep => after >= MinActiveToKeep
            /\ before < MinActiveToKeep => demoted = <<>>]_vars

\* C4 witness: a normal cycle has demoted a batch and left exactly the floor
C4_Witness ==
    /\ trace.cycle = "normal"
    /\ trace.demoted > 0
    /\ connectionStats.active = MinActiveToKeep

\* C5: every batch consists of whole hubs of 3 spokes (3 opacities, 18 position
\* values per hub, both hub counts equal to spokes/3 and at most the anchors
\* asked for), and only the anchors that found 3 points contribute spokes.
C5_WholeHubs ==
    /\ \A r \in DOMAIN batches :
        /\ batches[r].nOpacities = 3 * batches[r].hubsCount
        /\ batches[r].nPositions = 18 * batches[r].hubsCount
        /\ batches[r].geomHubsCount = batches[r].hubsCount
    /\ trace.requested > 0 =>
        LET qualified == Cardinality({i \in 1..trace.requested :
                                        Found([good |-> trace.good], i) >= 3})
        IN  IF qualified = 0 THEN trace.built = NoBatch
            ELSE /\ trace.built # NoBatch
                 /\ batches[trace.built].nOpacities = 3 * qualified
                 /\ batches[trace.built].hubsCount <= trace.requested

\* C5 witness: a build call in which some anchors qualified and some did not
C5_Witness ==
    /\ builds = 1
    /\ trace.built # NoBatch
    /\ trace.good > 0
    /\ trace.good < trace.requested

\* C6: the first tick at which a fading out batch has elapsed more than
\* FADE_OUT_DURATION moves it to pendingRemoval, the next tick detaches it and
\* drops it, and no batch is left in fadingOut past FADE_OUT_DURATION.
C6_FadeOutEnds ==
    /\ [](\A r \in Range(connectionStates.fadingOut) :
            batches[r].elapsed <= FADE_OUT_DURATION)
    /\ [][\A g \in {Garbage} :
          \A pr \in {Range(connectionStates.pendingRemoval)} :
          \A pr2 \in {Range(connectionStates'.pendingRemoval)} :
            /\ \A r \in Range(connectionStates.fadingOut) :
                 batches'[Relocate(r, g)].elapsed > FADE_OUT_DURATION
                    => Relocate(r, g) \in pr2
            /\ \A r \in pr \ g :
                 /\ Relocate(r, g) \notin AllRefs'
                 /\ Relocate(r, g) \notin scene'
            /\ Cardinality(scene') = Cardinality(scene \ pr)
                    + (IF trace'.built = NoBatch THEN 0 ELSE 1)
            /\ Cardinality(AllRefs') = Cardinality(AllRefs \ pr)
                    + (IF trace'.built = NoBatch THEN 0 ELSE 1)]_vars

\* C6 witness: a batch whose fade out is over sits in pendingRemoval, still
\* attached, for the next tick to drop
C6_Witness ==
    \E r \in Range(connectionStates.pendingRemoval) :
        /\ batches[r].state = "fadingOut"
        /\ batches[r].elapsed > FADE_OUT_DURATION
        /\ r \in scene

\* C7: whenever the balancer reads the counters, the first cycle after setup
\* included, they are the sums of the hub counts of the buckets.
C7_StatsWhenRead ==
    [][trace'.cycle \in {"overflow", "normal", "idle"} =>
        connectionStats = Stats(connectionStates, batches)]_vars

\* C8: at the end of every frame the state field of a batch in fadingIn,
\* active or fadingOut names the bucket that holds it.
C8_StateNamesBucket ==
    /\ \A r \in Range(connectionStates.fadingIn) : batches[r].state = "fadingIn"
    /\ \A r \in Range(connectionStates.active) : batches[r].state = "active"
    /\ \A r \in Range(connectionStates.fadingOut) : batches[r].state = "fadingOut"

\* the total is within the rate cap of the target
NearTarget ==
    /\ TotalHubs >= TARGET_CONNECTIONS - SpawnCap
    /\ TotalHubs <= TARGET_CONNECTIONS + SpawnCap

C10_NoOpAtZero ==
    \A r \in Range(connectionStates.fadingIn) \cup Range(connectionStates.fadingOut) :
        batches[r].elapsed = 0 => ~batches[r].changed

\* C10 amended: a tick at elapsed = 0 leaves a fadingIn or fadingOut batch in
\* its bucket and its opacity entries as built; the colour values of a
\* fadingIn batch stay as they are (black), those of a fadingOut batch are
\* multiplied by 0.95 and change wherever they are not 0.
C10_TickAtZero ==
    \A r \in DOMAIN batches :
        batches[r].elapsed = 0 =>
            /\ batches[r].state = "fadingOut" =>
                /\ r \in Range(connectionStates.fadingOut)
                /\ batches[r].changed <=> batches[r].colour = "lit"
            /\ (batches[r].state = "fadingIn" /\ r # connections) =>
                /\ r \in Range(connectionStates.fadingIn)
                /\ ~batches[r].changed
                /\ batches[r].colour = "black"
                /\ batches[r].opacity = InitialOpacityPartial
            /\ batches[r].opacity \in {InitialOpacityPartial, InitialOpacityFull}

\* C10 witness: a batch demoted in this frame, ticked at elapsed = 0, with its
\* colour changed
C10_Witness ==
    /\ \E r \in Range(connectionStates.fadingOut) :
        batches[r].elapsed = 0 /\ batches[r].changed
    /\ \E r \in Range(connectionStates.fadingIn) :
        batches[r].elapsed = 0 /\ ~batches[r].changed

\* C11: a normal cycle with an active batch demotes max(1, ceil(5% of the
\* active batches)) batches, fewer only as far as the active hub count would
\* otherwise fall below floor(TARGET_CONNECTIONS * 0.6).
C11_RefreshCount ==
    [][trace'.cycle = "normal" =>
        \A g \in {Garbage} :
        \A fo2 \in {Range(connectionStates'.fadingOut)} :
        \A demoted \in {SelectSeq(connectionStates.active,
                                  LAMBDA r : Relocate(r, g) \in fo2)} :
        \A before \in {SumHubs(connectionStates.active, batches)} :
          LET act == connectionStates.active
              want == Max(1, CeilMul(Len(act), CONNECTION_REFRESH_RATE, 100))
              allowed == {k \in 0..Min(want, Len(act)) :
                            before - SumHubs(SubSeq(act, 1, k), batches)
                                >= MinActiveToKeep}
              most == IF allowed = {} THEN 0
                      ELSE CHOOSE k \in allowed : \A j \in allowed : j <= k
          IN  Len(demoted) = most]_vars

\* C12: while frames keep being rendered, again and again an active batch is
\* demoted and again and again a batch is built.
C12_KeepsTurningOver ==
    /\ []<>(trace.demoted > 0)
    /\ []<>(trace.built # NoBatch)

C14_FifoOrder ==
    [][\A g \in {Garbage} :
       \A ac2 \in {Range(connectionStates'.active)} :
       \A fo2 \in {Range(connectionStates'.fadingOut)} :
       \A pr2 \in {Range(connectionStates'.pendingRemoval)} :
       \A demoted \in {SelectSeq(connectionStates.active,
                                 LAMBDA r : Relocate(r, g) \in fo2)} :
       \A expired \in {SelectSeq(connectionStates.fadingOut,
                                 LAMBDA r : Relocate(r, g) \in pr2)} :
       \A staying \in {SelectSeq(connectionStates.fadingOut,
                                 LAMBDA r : Relocate(r, g) \in fo2)} :
         /\ \A r \in Range(demoted) :
              \A q \in Range(connectionStates.active) :
                 q < r => Relocate(q, g) \notin ac2
         /\ connectionStates'.fadingOut = RelocateAll(staying \o demoted, g)
         /\ connectionStates.fadingOut = expired \o staying
         /\ connectionStates'.pendingRemoval = RelocateAll(expired, g)]_vars

\* C14 witness: two batches demoted by different cycles have reached
\* pendingRemoval together, while the cycle of this frame demoted another
C14_Witness ==
    /\ Len(connectionStates.pendingRemoval) >= 2
    /\ connectionStates.fadingOut # <<>>
    /\ trace.demoted > 0

\* C15: a frame adds at most one batch, and only in a balancing cycle that
\* read total < MAX_TOTAL_CONNECTIONS and total - fadingOut + 20 <
\* TARGET_CONNECTIONS; the batch holds at most min(20, ceil(0.2 * (TARGET -
\* (total - fadingOut)))) hubs; the total grows by at most 20 in a cycle and
\* not at all in a frame without one.
C15_SpawnCap ==
    [][\A g \in {Garbage} :
       \A old \in {{Relocate(r, g) : r \in {x \in AllRefs : x \notin g}}} :
       \A new \in {{x \in AllRefs' : x \notin old}} :
         /\ Cardinality(new) <= 1
         /\ \A r \in new :
              /\ trace'.cycle # "none"
              /\ connectionStats.total < MAX_TOTAL_CONNECTIONS
              /\ connectionStats.total - connectionStats.fadingOut + SpawnBuffer
                    < TARGET_CONNECTIONS
              /\ batches'[r].hubsCount <=
                    Min(SpawnCap,
                        CeilMul(TARGET_CONNECTIONS - (connectionStats.total
                                    - connectionStats.fadingOut), 2, 10))
         /\ \A before \in {TotalHubs} :
            \A st2 \in {connectionStates'} :
            \A h2 \in {batches'} :
            \A after \in {SumHubs(st2.active, h2) + SumHubs(st2.fadingIn, h2)
                            + SumHubs(st2.fadingOut, h2)} :
              /\ after <= before + SpawnCap
              /\ trace'.cycle = "none" => after <= before]_vars

\* C15 witness: a cycle has built a batch of the full 20 hubs
C15_Witness ==
    /\ builds = 1
    /\ trace.cycle = "normal"
    /\ trace.built # NoBatch
    /\ batches[trace.built].hubsCount = SpawnCap

\* C16: the first tick at which a fading in batch has elapsed
\* FADE_IN_DURATION or more, equality included, moves it to active, and no
\* tick moves it before.
C16_FadeInEnds ==
    /\ [](\A r \in Range(connectionStates.fadingIn) :
            batches[r].elapsed < FADE_IN_DURATION)
    /\ [][\A g \in {Garbage} :
          \A ac2 \in {Range(connectionStates'.active)} :
            \A r \in Range(connectionStates.fadingIn) :
                Relocate(r, g) \in ac2 =>
                    batches'[Relocate(r, g)].elapsed >= FADE_IN_DURATION]_vars

\* C17: a batch built by a balancer cycle is placed in fadingIn with
\* opacities 0.01 and enters active only from fadingIn; the batch built by
\* setup is placed in active with opacities 0.5.
C17_Placement ==
    /\ []((trace.cycle = "setup" /\ trace.built # NoBatch) =>
            /\ trace.built \in Range(connectionStates.active)
            /\ batches[trace.built].opacity = InitialOpacityFull)
    /\ [][\A g \in {Garbage} :
          \A fi2 \in {Range(connectionStates'.fadingIn)} :
          \A from \in {{Relocate(r, g) :
                            r \in Range(connectionStates.active)
                                \cup Range(connectionStates.fadingIn)}} :
            /\ trace'.built # NoBatch =>
                 /\ trace'.built \in fi2
                 /\ batches'[trace'.built].opacity = InitialOpacityPartial
            /\ \A r \in Range(connectionStates'.active) : r \in from]_vars

\* C18: when a frame is submitted for render, every batch attached to the
\* scene, pendingRemoval included, has the rotation of the point field.
C18_RotationSynced == \A r \in scene : batches[r].synced

\* C19: the balancer runs at most once per frame, exactly on the frames whose
\* time has reached the watermark (so on the first frame after setup), each
\* run puts the watermark SMALL_BATCH_INTERVAL ahead, so two consecutive runs
\* are at least SMALL_BATCH_INTERVAL apart whatever the frame gaps, and
\* updateConnections runs on every frame.  The frame gap is read off every
\* batch whose startTime the frame did not reset and whose age is below the
\* cap of the clock.
C19_Cadence ==
    [][\A g \in {Garbage} : \A st2 \in {connectionStates'} :
       \A h2 \in {batches'} :
       \A gaps \in {{h2[Relocate(r, g)].elapsed - batches[r].elapsed :
                        r \in {x \in AllRefs \ g :
                            /\ h2[Relocate(x, g)].elapsed < ElapsedCap
                            /\ h2[Relocate(x, g)].state = batches[x].state}}} :
          /\ trace'.cycle # "none" =>
                /\ initialSetupDone
                /\ untilUpdate' = SMALL_BATCH_INTERVAL
                /\ \A dt \in gaps : dt >= untilUpdate
          /\ trace'.cycle = "none" =>
                /\ untilUpdate' > 0
                /\ \A dt \in gaps : untilUpdate' = untilUpdate - dt
          /\ (initialSetupDone /\ untilUpdate = 0) => trace'.cycle # "none"
          /\ connectionStats' = Stats(st2, h2)
          /\ st2.pendingRemoval =
                RelocateAll(SelectSeq(connectionStates.fadingOut,
                    LAMBDA r : r \notin g /\ Relocate(r, g) \notin
                                                Range(st2.fadingOut)), g)]_vars

C19_Witness ==
    /\ builds = 1
    /\ Cycled
    /\ untilUpdate = SMALL_BATCH_INTERVAL
    /\ \E r \in Range(connectionStates.fadingOut) :
            batches[r].elapsed \in
                SMALL_BATCH_INTERVAL..(FADE_OUT_DURATION - 1)

\* C20: a resize on a window of height 0 leaves the camera aspect finite: no
\* Infinity or NaN is stored in camera.aspect or reaches the projection
\* matrix.
C20_AspectFinite == Finite(camera.aspect) /\ Finite(camera.projection)

\* C21: a batch in pendingRemoval, still attached when the frame is
\* submitted for render, has already been marked invisible, whatever the
\* gaps between the frames; and a batch marked invisible never becomes
\* visible again.
C21_InvisibleWhenExpired ==
    /\ [](\A r \in Range(connectionStates.pendingRemoval) :
             r \in scene => ~batches[r].visible)
    /\ [][\A g \in {Garbage} : \A h2 \in {batches'} :
            \A r \in AllRefs \ g :
                ~batches[r].visible => ~h2[Relocate(r, g)].visible]_vars

\* C22: at the end of every frame the batches attached to the scene are
\* exactly the batches in the four buckets; a frame attaches the batch it
\* builds, detaches exactly the batches it drops from pendingRemoval, and
\* attaches nothing else, so a detached batch is never attached again.
C22_SceneIsBuckets ==
    /\ [](scene = AllRefs)
    /\ [][\A g \in {Garbage} : \A attached \in {scene'} :
            \A dropped \in {Range(connectionStates.pendingRemoval)} :
            \A kept \in {{Relocate(r, g) : r \in scene \ dropped}} :
            \A made \in {IF trace'.built # NoBatch THEN {trace'.built}
                          ELSE {}} :
                /\ attached = kept \cup made
                /\ kept \cap made = {}
                /\ Cardinality(kept) = Cardinality(scene \ dropped)
                /\ (connections # NoBatch /\ connections \notin scene) =>
                        /\ connections' = Relocate(connections, g)
                        /\ connections' \notin attached]_vars

\* C22 witness: the first batch has been detached (the global `connections`
\* still refers to it), the frame built and attached a batch, and a batch
\* waits in pendingRemoval, still attached
C22_Witness ==
    /\ connections # NoBatch
    /\ connections \notin scene
    /\ trace.built # NoBatch
    /\ trace.built \in scene
    /\ connectionStates.pendingRemoval # <<>>

\* C23: every batch in a bucket has at least one hub; a build call in which
\* no anchor finds 3 points creates no batch and leaves the buckets, the
\* scene and every other part of the state as they were.  The calls checked
\* are the one of setup and, for every gap to the next frame, the one the
\* balancer would make then, on the state its demotions leave.
C23_NoEmptyBatch ==
    /\ \A r \in AllRefs : batches[r].hubsCount >= 1
    /\ createConnections(Blank, FullReplacement, INITIAL_CONNECTIONS,
                         [good |-> 0]) = Blank
    /\ \A dt \in 1..MaxDt : \A s1 \in {Advance(Current, dt)} :
         (Due(s1) /\ SpawnRequest(s1) > 0) =>
            \A d \in {IF NumDemoted(s1) > 0 THEN Demote(s1, NumDemoted(s1))
                       ELSE s1} :
                createConnections(d, CONNECTION_REFRESH_RATE,
                                  SpawnRequest(s1), [good |-> 0]) = d

\* C23 witness: the balancer of the last frame called for a batch, no anchor
\* found 3 points, and batches built earlier are in active
C23_Witness ==
    /\ Cycled
    /\ trace.requested > 0
    /\ trace.good = 0
    /\ trace.built = NoBatch
    /\ connectionStates.active # <<>>

\* C24: the three spokes of a hub end at three pairwise distinct points of
\* the field, none of them the hub's own anchor point, whatever the probes
\* drew.
C24_DistinctSpokes ==
    (anchor.formed /\ anchor.spokes # <<>>) =>
        /\ \A a \in 1..3 : anchor.spokes[a] # anchor.hubIndex
        /\ \A a \in 1..3 : \A b \in 1..3 :
                a # b => anchor.spokes[a] # anchor.spokes[b]

====
